---- MODULE Spec2Model ----
(***************************************************************************)
(* A model of rangeRequestFetcher (src/index.js): the transfer pipeline     *)
(* (the async function behind `promise`), the control surface (pause,       *)
(* resume, abort, getProgress) and the collaborators it awaits (fetch,      *)
(* the body reader, the file picker, the writable, the timers).             *)
(*                                                                         *)
(* One action of the pipeline is the code that runs between two awaits:     *)
(* JavaScript runs it to completion, and the control calls and the timer    *)
(* callbacks interleave only at the awaits.                                 *)
(***************************************************************************)
EXTENDS Integers, Sequences, FiniteSets, TLC

\* ---------------------------------------------------------------- bounds
MaxTotalSize == 3     \* largest Content-Length the HEAD response reports
MaxChunkSize == 2     \* largest configured chunkSize
MaxMaxRetries == 2    \* largest configured maxRetries
MaxExtra == 1         \* bytes a response body may carry beyond the range asked for
MaxCalls == 2         \* pause(), abort() and resume()-while-running calls per transfer
MaxRequests == 4      \* range requests issued per transfer
MaxBackoffRetries == 3  \* maxRetries of the transfers explored for the backoff

\* ---------------------------------------------------------------- constants
BackoffBase == 1000   \* milliseconds of backoff per failed attempt (index.js:175)

\* ---------------------------------------------------------------- state
VARIABLES
  chunkSize, maxRetries,       \* configuration (index.js:6-7)
  headers, token,              \* configuration (index.js:4-5)
  built,                       \* headers of the last request issued
  backoffDelay,                \* delay of the last backoff timer set (ms)
  totalSize, downloadedSize, currentChunkProgress,
  writer,                      \* TRUE once `writer` holds the writable
  isPaused, isAborted,
  currentController,           \* 0 = null, n > 0 = the n-th AbortController
  progressInterval,            \* TRUE while the 250 ms interval is set
  pc,                          \* the await the pipeline is suspended at
  gate,                        \* state of the promise of waitWhilePaused
  start, end, retries, success, receivedLength,
  err,                         \* the error held by the outer catch block
  completion, error,           \* state of `promise` and its rejection value
  statusLog,                   \* calls of onStatus, in order
  lastProgress,                \* last value passed to onProgress (-1: none)
  reqLog,                      \* range requests issued, in order
  commits,                     \* commits, in order: the range asked for, the
                               \* bytes written, the request that delivered
                               \* them and the failed attempts before it
  acquireCount, closeCount,    \* showSaveFilePicker() and writer.close() calls
  abortedTokens,               \* AbortControllers whose abort() was called
  calls,                       \* control calls counted against MaxCalls
  abortAt                      \* where the pipeline stood at the first abort()

pipeVars == <<totalSize, downloadedSize, currentChunkProgress, writer,
              currentController, progressInterval, pc, gate, start, end,
              retries, success, receivedLength, err, completion, error,
              statusLog, lastProgress, reqLog, commits, acquireCount,
              closeCount, abortedTokens, built, backoffDelay>>

vars == <<chunkSize, maxRetries, headers, token, isPaused, isAborted, calls, abortAt, pipeVars>>

\* The pipeline's view of the state, as one record: the code between two
\* awaits is a function from this record to this record.
Cur == [totalSize |-> totalSize, downloadedSize |-> downloadedSize,
        currentChunkProgress |-> currentChunkProgress, writer |-> writer,
        currentController |-> currentController,
        progressInterval |-> progressInterval, pc |-> pc, gate |-> gate,
        start |-> start, end |-> end, retries |-> retries,
        success |-> success, receivedLength |-> receivedLength, err |-> err,
        completion |-> completion, error |-> error, statusLog |-> statusLog,
        lastProgress |-> lastProgress, reqLog |-> reqLog, commits |-> commits,
        acquireCount |-> acquireCount, closeCount |-> closeCount,
        abortedTokens |-> abortedTokens, built |-> built,
        backoffDelay |-> backoffDelay]

Install(s) ==
  /\ totalSize' = s.totalSize
  /\ downloadedSize' = s.downloadedSize
  /\ currentChunkProgress' = s.currentChunkProgress
  /\ writer' = s.writer
  /\ currentController' = s.currentController
  /\ progressInterval' = s.progressInterval
  /\ pc' = s.pc
  /\ gate' = s.gate
  /\ start' = s.start
  /\ end' = s.end
  /\ retries' = s.retries
  /\ success' = s.success
  /\ receivedLength' = s.receivedLength
  /\ err' = s.err
  /\ completion' = s.completion
  /\ error' = s.error
  /\ statusLog' = s.statusLog
  /\ lastProgress' = s.lastProgress
  /\ reqLog' = s.reqLog
  /\ commits' = s.commits
  /\ acquireCount' = s.acquireCount
  /\ closeCount' = s.closeCount
  /\ abortedTokens' = s.abortedTokens
  /\ built' = s.built
  /\ backoffDelay' = s.backoffDelay

Min(a, b) == IF a < b THEN a ELSE b

\* ---------------------------------------------------------------- helpers
\* One call of onStatus: the status text with the values of its template.
St(text, by) == [st |-> text, a |-> 0, b |-> 0, n |-> 0, by |-> by]
RetryingSt(a, b, n) == [st |-> "retrying", a |-> a, b |-> b, n |-> n, by |-> "loop"]

onStatus(s, x) == [s EXCEPT !.statusLog = Append(@, x)]

\* Math.floor(((downloadedSize + currentChunkProgress) / totalSize) * 100).
\* For the sizes up to MaxTotalSize + MaxExtra the double-precision quotient
\* times 100 has the same floor as the exact rational.
Percent(done, total) == (done * 100) \div total

getProgress ==
  IF totalSize > 0 THEN Percent(downloadedSize + currentChunkProgress, totalSize)
  ELSE 0

updateProgress(s) ==
  IF s.totalSize > 0
  THEN [s EXCEPT !.lastProgress =
          Percent(s.downloadedSize + s.currentChunkProgress, s.totalSize)]
  ELSE s

startProgressUpdates(s) == [s EXCEPT !.progressInterval = TRUE]

stopProgressUpdates(s) == [s EXCEPT !.progressInterval = FALSE]

\* A header object is a function from header names to values; a value is
\* <<text>>, <<"Bearer", token>> or <<"bytes", start, end>>.
NoHeaders == [k \in {} |-> <<"">>]

\* Truthiness of a string value: the empty string is falsy.
Truthy(v) == v # <<"">>

\* `token` is <<>> when the option is not given, else <<text>>.
TokenSet == token # <<>> /\ token[1] # ""

\* { ...headers, ...extra } (index.js:21)
Merged(extra) ==
  [k \in DOMAIN headers \cup DOMAIN extra |->
     IF k \in DOMAIN extra THEN extra[k] ELSE headers[k]]

\* The Range and Cache-Control headers of a range request (index.js:108-111).
RangeExtra(a, b) ==
  [k \in {"Range", "Cache-Control"} |->
     IF k = "Range" THEN <<"bytes", a, b>> ELSE <<"no-cache">>]

\* buildHeaders (index.js:20-24)
buildHeaders(extra) ==
  LET h == Merged(extra)
  IN IF TokenSet /\ ~("Authorization" \in DOMAIN h /\ Truthy(h["Authorization"]))
     THEN [k \in DOMAIN h \cup {"Authorization"} |->
             IF k = "Authorization" THEN <<"Bearer", token[1]>> ELSE h[k]]
     ELSE h

\* checkPauseFirst letting a paused pipeline through.
checkPauseFirstIgnoresPause == IF isAborted THEN "rejected" ELSE "resolved"

\* checkPause as called by the executor of the promise: a throw rejects it.
checkPauseFirst ==
  IF isAborted THEN "rejected" ELSE IF ~isPaused THEN "resolved" ELSE "polling"

\* checkPause as called by setTimeout: a throw leaves the timer callback as
\* an uncaught exception, no timer is armed and nothing settles the promise.
checkPauseTimer ==
  IF isAborted THEN "dead" ELSE IF ~isPaused THEN "resolved" ELSE "polling"

waitWhilePaused(s, site) == [s EXCEPT !.pc = site, !.gate = checkPauseFirst]

\* currentController.abort()
abortController(s) ==
  IF s.currentController # 0
  THEN [s EXCEPT !.abortedTokens = @ \cup {s.currentController}]
  ELSE s

AbortedErr == <<"Download aborted">>

\* ---------------------------------------------------------------- pipeline
\* OuterCatch without the close of the writer.
OuterCatchNoClose(s, e) ==
  LET s1 == stopProgressUpdates(s)
      s2 == IF ~isAborted THEN onStatus(s1, St("error", "loop")) ELSE s1
  IN [abortController(s2) EXCEPT !.pc = "settled",
                                 !.completion = "rejected", !.error = e]

\* The outer catch block up to its await (index.js:193-198); with no writer
\* it runs through to the rethrow.
OuterCatch(s, e) ==
  LET s1 == stopProgressUpdates(s)
      s2 == IF ~isAborted THEN onStatus(s1, St("error", "loop")) ELSE s1
  IN IF s2.writer
     THEN [s2 EXCEPT !.closeCount = @ + 1, !.pc = "catch_close", !.err = e]
     ELSE [abortController(s2) EXCEPT !.pc = "settled",
                                      !.completion = "rejected", !.error = e]

\* After the chunk loop (index.js:182-190), up to `await writer.close()`.
AfterChunkLoop(s) ==
  IF isAborted
  THEN OuterCatch(onStatus(stopProgressUpdates(s), St("aborted", "loop")),
                  AbortedErr)
  ELSE [onStatus(stopProgressUpdates(s), St("finalizing", "loop"))
          EXCEPT !.closeCount = @ + 1, !.pc = "final_close"]

\* The condition of the chunk loop (index.js:88-89).
ChunkLoopHead(s) ==
  IF s.downloadedSize < s.totalSize /\ ~isAborted
  THEN waitWhilePaused(s, "gate_chunk")
  ELSE AfterChunkLoop(s)

\* After the retry loop (index.js:179).
AfterRetryLoop(s) == IF isAborted THEN AfterChunkLoop(s) ELSE ChunkLoopHead(s)

\* The condition of the retry loop and the first statement of try
\* (index.js:98-100).
RetryLoopHead(s) ==
  IF ~s.success /\ s.retries < maxRetries /\ ~isAborted
  THEN waitWhilePaused(s, "gate_attempt")
  ELSE AfterRetryLoop(s)

\* InnerCatch giving up only when retries exceeds maxRetries.
InnerCatchOffByOne(s, name) ==
  LET s1 == [s EXCEPT !.currentController = 0]
      s2 == [s1 EXCEPT !.retries = @ + 1]
      s3 == onStatus(s2, RetryingSt(s2.start, s2.end, s2.retries))
  IN IF name = "AbortError" \/ isAborted
     THEN AfterRetryLoop(s1)
     ELSE IF s3.retries > maxRetries
          THEN OuterCatch(s3, <<"Chunk failed after retries", s3.start, s3.end, maxRetries>>)
          ELSE [s3 EXCEPT !.pc = "backoff",
                          !.backoffDelay = BackoffBase * s3.retries]

\* InnerCatch emitting the retrying status before it counts the attempt.
InnerCatchEarlyStatus(s, name) ==
  LET s1 == [s EXCEPT !.currentController = 0]
      s2 == onStatus(s1, RetryingSt(s1.start, s1.end, s1.retries))
      s3 == [s2 EXCEPT !.retries = @ + 1]
  IN IF name = "AbortError" \/ isAborted
     THEN AfterRetryLoop(s1)
     ELSE IF s3.retries >= maxRetries
          THEN OuterCatch(s3, <<"Chunk failed after retries", s3.start, s3.end, maxRetries>>)
          ELSE [s3 EXCEPT !.pc = "backoff",
                          !.backoffDelay = BackoffBase * s3.retries]

\* InnerCatch that takes only an AbortError for an abort.
InnerCatchCountsAborted(s, name) ==
  LET s1 == [s EXCEPT !.currentController = 0]
      s2 == [s1 EXCEPT !.retries = @ + 1]
      s3 == onStatus(s2, RetryingSt(s2.start, s2.end, s2.retries))
  IN IF name = "AbortError"
     THEN AfterRetryLoop(s1)
     ELSE IF s3.retries >= maxRetries
          THEN OuterCatch(s3, <<"Chunk failed after retries", s3.start, s3.end, maxRetries>>)
          ELSE [s3 EXCEPT !.pc = "backoff",
                          !.backoffDelay = BackoffBase * s3.retries]

\* InnerCatch waiting the base delay whatever the attempt.
InnerCatchFlatDelay(s, name) ==
  LET s1 == [s EXCEPT !.currentController = 0]
      s2 == [s1 EXCEPT !.retries = @ + 1]
      s3 == onStatus(s2, RetryingSt(s2.start, s2.end, s2.retries))
  IN IF name = "AbortError" \/ isAborted
     THEN AfterRetryLoop(s1)
     ELSE IF s3.retries >= maxRetries
          THEN OuterCatch(s3, <<"Chunk failed after retries", s3.start, s3.end, maxRetries>>)
          ELSE [s3 EXCEPT !.pc = "backoff", !.backoffDelay = BackoffBase]

\* The catch block of one attempt (index.js:167-176); name is err.name.
InnerCatch(s, name) ==
  LET s1 == [s EXCEPT !.currentController = 0]
      s2 == [s1 EXCEPT !.retries = @ + 1]
      s3 == onStatus(s2, RetryingSt(s2.start, s2.end, s2.retries))
  IN IF name = "AbortError" \/ isAborted
     THEN AfterRetryLoop(s1)
     ELSE IF s3.retries >= maxRetries
          THEN OuterCatch(s3, <<"Chunk failed after retries", s3.start, s3.end, maxRetries>>)
          ELSE [s3 EXCEPT !.pc = "backoff",
                          !.backoffDelay = BackoffBase * s3.retries]

\* After the streaming loop (index.js:145-155).
AfterStream(s) ==
  IF isAborted THEN AfterRetryLoop(s) ELSE waitWhilePaused(s, "gate_commit")

\* ---------------------------------------------------------------- Init
\* The state when rangeRequestFetcher returns: the pipeline has emitted
\* `preparing` and awaits the HEAD request.
InitPipeline ==
  /\ totalSize = 0 /\ downloadedSize = 0 /\ currentChunkProgress = 0
  /\ writer = FALSE
  /\ isPaused = FALSE /\ isAborted = FALSE
  /\ currentController = 0
  /\ progressInterval = FALSE
  /\ pc = "head" /\ gate = "none"
  /\ start = 0 /\ end = 0 /\ retries = 0 /\ success = FALSE
  /\ receivedLength = 0
  /\ err = <<>>
  /\ completion = "pending" /\ error = <<>>
  /\ statusLog = <<St("preparing", "loop")>>
  /\ lastProgress = -1
  /\ reqLog = <<>> /\ commits = <<>>
  /\ acquireCount = 0 /\ closeCount = 0
  /\ abortedTokens = {}
  /\ calls = 0
  /\ abortAt = [pc |-> "none", gate |-> "none"]
  /\ built = buildHeaders(NoHeaders)
  /\ backoffDelay = 0

InitTransfer ==
  /\ chunkSize \in 1..MaxChunkSize
  /\ maxRetries \in 0..MaxMaxRetries
  /\ InitPipeline

\* The transfer does not read the headers: it is explored for a caller that
\* gives neither headers nor token.
Init ==
  /\ headers = NoHeaders /\ token = <<>>
  /\ InitTransfer

ctlUnchanged == UNCHANGED <<chunkSize, maxRetries, headers, token, isPaused, isAborted, calls, abortAt>>

\* ---- size discovery and sink acquisition (index.js:62-86)
HeadReject ==
  /\ pc = "head"
  /\ Install(OuterCatch(Cur, <<"network">>))
  /\ ctlUnchanged

\* The Content-Length header of the HEAD response: absent, text that does
\* not start with digits, or digits.
ContentLengthHeaders ==
  {<<"missing">>, <<"unparsable">>}
    \cup {<<"digits", n>> : n \in 0..MaxTotalSize}

\* parseInt(header): NaN for an absent header or text without leading
\* digits (index.js:72).
parseInt(h) == IF h[1] = "digits" THEN <<"num", h[2]>> ELSE <<"NaN">>

\* `v || 0`: NaN and 0 are falsy (index.js:72).
OrZero(v) == IF v[1] = "num" /\ v[2] # 0 THEN v[2] ELSE 0

\* HeadResponse taking a size of zero as the size of an empty file.
HeadResponseZeroOk ==
  /\ pc = "head"
  /\ \E ok \in BOOLEAN, h \in ContentLengthHeaders :
       Install(IF ~ok
               THEN OuterCatch(Cur, <<"Failed to get file info">>)
               ELSE [Cur EXCEPT !.totalSize = OrZero(parseInt(h)),
                                !.acquireCount = @ + 1,
                                !.pc = "picker"])
  /\ ctlUnchanged

\* ok: response.ok; h: the Content-Length header (index.js:70-73).
HeadResponse ==
  /\ pc = "head"
  /\ \E ok \in BOOLEAN, h \in ContentLengthHeaders :
       Install(IF ~ok
               THEN OuterCatch(Cur, <<"Failed to get file info">>)
               ELSE IF OrZero(parseInt(h)) = 0
                    THEN OuterCatch([Cur EXCEPT !.totalSize = 0],
                                    <<"Could not determine file size">>)
                    ELSE [Cur EXCEPT !.totalSize = OrZero(parseInt(h)),
                                     !.acquireCount = @ + 1,
                                     !.pc = "picker"])
  /\ ctlUnchanged

PickerReject ==
  /\ pc = "picker"
  /\ Install(OuterCatch(Cur, <<"picker">>))
  /\ ctlUnchanged

\* PickerOk entering the chunk loop without opening the writable.
PickerOkSkipsCreateWritable ==
  /\ pc = "picker"
  /\ Install(ChunkLoopHead(startProgressUpdates(Cur)))
  /\ ctlUnchanged

PickerOk ==
  /\ pc = "picker"
  /\ Install([Cur EXCEPT !.pc = "createWritable"])
  /\ ctlUnchanged

CreateWritableReject ==
  /\ pc = "createWritable"
  /\ Install(OuterCatch(Cur, <<"createWritable">>))
  /\ ctlUnchanged

CreateWritableOk ==
  /\ pc = "createWritable"
  /\ Install(ChunkLoopHead(startProgressUpdates([Cur EXCEPT !.writer = TRUE])))
  /\ ctlUnchanged

\* ---- the pause gate (index.js:47-59)
GateSites == {"gate_chunk", "gate_attempt", "gate_stream", "gate_commit"}

\* The setTimeout(checkPause, 100) callback.
GatePoll ==
  /\ pc \in GateSites /\ gate = "polling"
  /\ gate' = checkPauseTimer
  /\ UNCHANGED <<chunkSize, maxRetries, headers, token, isPaused, isAborted, calls, abortAt,
                 totalSize, downloadedSize, currentChunkProgress, writer,
                 currentController, progressInterval, pc, start, end,
                 retries, success, receivedLength, err, completion, error,
                 statusLog, lastProgress, reqLog, commits, acquireCount,
                 closeCount, abortedTokens, built, backoffDelay>>

\* ChunkStart without the clamp of end to totalSize - 1.
ChunkStartNoClamp ==
  /\ pc = "gate_chunk" /\ gate \in {"resolved", "rejected"}
  /\ Install(
       LET s == [Cur EXCEPT !.gate = "none"]
           st == s.downloadedSize
           s1 == [s EXCEPT !.start = st,
                           !.end = st + chunkSize - 1,
                           !.retries = 0, !.success = FALSE]
       IN IF gate = "rejected" THEN OuterCatch(s, AbortedErr)
          ELSE IF isAborted THEN AfterChunkLoop(s)
          ELSE RetryLoopHead(s1))
  /\ ctlUnchanged

\* ---- the chunk loop (index.js:88-180)
\* Continuation of `await waitWhilePaused()` at index.js:89.
ChunkStart ==
  /\ pc = "gate_chunk" /\ gate \in {"resolved", "rejected"}
  /\ Install(
       LET s == [Cur EXCEPT !.gate = "none"]
           st == s.downloadedSize
           s1 == [s EXCEPT !.start = st,
                           !.end = Min(st + chunkSize - 1, s.totalSize - 1),
                           !.retries = 0, !.success = FALSE]
       IN IF gate = "rejected" THEN OuterCatch(s, AbortedErr)
          ELSE IF isAborted THEN AfterChunkLoop(s)
          ELSE RetryLoopHead(s1))
  /\ ctlUnchanged

\* Continuation of `await waitWhilePaused()` at index.js:100: the range
\* request is issued with a new AbortController.
AttemptStart ==
  /\ pc = "gate_attempt" /\ gate \in {"resolved", "rejected"}
  /\ gate = "rejected" \/ isAborted \/ Len(reqLog) < MaxRequests
  /\ Install(
       LET s == [Cur EXCEPT !.gate = "none"]
           tok == Len(s.reqLog) + 1
       IN IF gate = "rejected" THEN InnerCatch(s, "Error")
          ELSE IF isAborted THEN AfterRetryLoop(s)
          ELSE [s EXCEPT !.currentController = tok,
                         !.built = buildHeaders(RangeExtra(s.start, s.end)),
                         !.reqLog = Append(@, <<s.start, s.end>>),
                         !.pc = "fetch"])
  /\ ctlUnchanged

\* fetch rejects: a network error, or an AbortError once the signal of the
\* request was aborted.
FetchReject ==
  /\ pc = "fetch"
  /\ \E name \in {"TypeError"} \cup
                 (IF currentController \in abortedTokens THEN {"AbortError"} ELSE {}) :
       Install(InnerCatch(Cur, name))
  /\ ctlUnchanged

\* fetch resolves with a response (index.js:116-128).
FetchResponse ==
  /\ pc = "fetch"
  /\ \E ok \in BOOLEAN :
       Install(IF ~ok THEN InnerCatch(Cur, "Error")
               ELSE waitWhilePaused([Cur EXCEPT !.currentChunkProgress = 0,
                                                !.receivedLength = 0],
                                    "gate_stream"))
  /\ ctlUnchanged

\* Continuation of `await waitWhilePaused()` at index.js:128.
StreamStep ==
  /\ pc = "gate_stream" /\ gate \in {"resolved", "rejected"}
  /\ Install(
       LET s == [Cur EXCEPT !.gate = "none"]
       IN IF gate = "rejected" THEN InnerCatch(s, "Error")
          ELSE IF isAborted THEN AfterStream(s)
          ELSE [s EXCEPT !.pc = "read"])
  /\ ctlUnchanged

\* reader.read() resolves with a fragment of len bytes (index.js:131-142).
ReadFragment ==
  /\ pc = "read"
  /\ \E len \in 1..(MaxChunkSize + MaxExtra) :
       /\ receivedLength + len <= (end - start + 1) + MaxExtra
       /\ Install(
            LET s1 == updateProgress(
                        [Cur EXCEPT !.receivedLength = @ + len,
                                    !.currentChunkProgress = receivedLength + len])
            IN IF isAborted THEN AfterStream(s1)
               ELSE waitWhilePaused(s1, "gate_stream"))
  /\ ctlUnchanged

\* reader.read() resolves with done (index.js:133, 145-155).
ReadDone ==
  /\ pc = "read"
  /\ Install(AfterStream(Cur))
  /\ ctlUnchanged

\* reader.read() rejects: the stream failed, or an AbortError once the
\* signal of the request was aborted.
ReadReject ==
  /\ pc = "read"
  /\ \E name \in {"TypeError"} \cup
                 (IF currentController \in abortedTokens THEN {"AbortError"} ELSE {}) :
       Install(InnerCatch(Cur, name))
  /\ ctlUnchanged

\* CommitStart clearing currentChunkProgress before the write has resolved.
CommitStartResetsInFlight ==
  /\ pc = "gate_commit" /\ gate \in {"resolved", "rejected"}
  /\ Install(
       LET s == [Cur EXCEPT !.gate = "none"]
       IN IF gate = "rejected" THEN InnerCatch(s, "Error")
          ELSE IF isAborted THEN AfterRetryLoop(s)
          ELSE [s EXCEPT !.pc = "write", !.currentChunkProgress = 0])
  /\ ctlUnchanged

\* Continuation of `await waitWhilePaused()` at index.js:155.
CommitStart ==
  /\ pc = "gate_commit" /\ gate \in {"resolved", "rejected"}
  /\ Install(
       LET s == [Cur EXCEPT !.gate = "none"]
       IN IF gate = "rejected" THEN InnerCatch(s, "Error")
          ELSE IF isAborted THEN AfterRetryLoop(s)
          ELSE [s EXCEPT !.pc = "write"])
  /\ ctlUnchanged

\* WriteOk leaving the bytes of the chunk counted in currentChunkProgress.
WriteOkKeepsInFlight ==
  /\ pc = "write"
  /\ Install(
       LET s1 == [Cur EXCEPT !.downloadedSize = @ + receivedLength,
                             !.commits = Append(@, [start |-> start, end |-> end,
                                                    len |-> receivedLength,
                                                    req |-> Len(reqLog),
                                                    retries |-> retries])]
           s2 == onStatus(updateProgress(s1),
                          St(IF isPaused THEN "paused" ELSE "downloading", "loop"))
           s3 == [s2 EXCEPT !.success = TRUE, !.currentController = 0]
       IN RetryLoopHead(s3))
  /\ ctlUnchanged

\* WriteOk leaving the controller of the committed request in place.
WriteOkKeepsController ==
  /\ pc = "write"
  /\ Install(
       LET s1 == [Cur EXCEPT !.downloadedSize = @ + receivedLength,
                             !.currentChunkProgress = 0,
                             !.commits = Append(@, [start |-> start, end |-> end,
                                                    len |-> receivedLength,
                                                    req |-> Len(reqLog),
                                                    retries |-> retries])]
           s2 == onStatus(updateProgress(s1),
                          St(IF isPaused THEN "paused" ELSE "downloading", "loop"))
           s3 == [s2 EXCEPT !.success = TRUE]
       IN RetryLoopHead(s3))
  /\ ctlUnchanged

\* WriteOk reporting downloading whatever the pause flag.
WriteOkAlwaysDownloading ==
  /\ pc = "write"
  /\ Install(
       LET s1 == [Cur EXCEPT !.downloadedSize = @ + receivedLength,
                             !.currentChunkProgress = 0,
                             !.commits = Append(@, [start |-> start, end |-> end,
                                                    len |-> receivedLength,
                                                    req |-> Len(reqLog),
                                                    retries |-> retries])]
           s2 == onStatus(updateProgress(s1), St("downloading", "loop"))
           s3 == [s2 EXCEPT !.success = TRUE, !.currentController = 0]
       IN RetryLoopHead(s3))
  /\ ctlUnchanged

\* writer.write resolves: the commit (index.js:159-166).
WriteOk ==
  /\ pc = "write"
  /\ Install(
       LET s1 == [Cur EXCEPT !.downloadedSize = @ + receivedLength,
                             !.currentChunkProgress = 0,
                             !.commits = Append(@, [start |-> start, end |-> end,
                                                    len |-> receivedLength,
                                                    req |-> Len(reqLog),
                                                    retries |-> retries])]
           s2 == onStatus(updateProgress(s1),
                          St(IF isPaused THEN "paused" ELSE "downloading", "loop"))
           s3 == [s2 EXCEPT !.success = TRUE, !.currentController = 0]
       IN RetryLoopHead(s3))
  /\ ctlUnchanged

WriteReject ==
  /\ pc = "write"
  /\ Install(InnerCatch(Cur, "Error"))
  /\ ctlUnchanged

\* The setTimeout(r, 1000 * retries) of the backoff fires (index.js:175).
BackoffElapsed ==
  /\ pc = "backoff"
  /\ Install(RetryLoopHead(Cur))
  /\ ctlUnchanged

\* ---- finalizing (index.js:188-192)
FinalCloseOk ==
  /\ pc = "final_close"
  /\ Install([onStatus(updateProgress(Cur), St("done", "loop"))
                EXCEPT !.pc = "settled", !.completion = "resolved"])
  /\ ctlUnchanged

FinalCloseReject ==
  /\ pc = "final_close"
  /\ Install(OuterCatch(Cur, <<"close">>))
  /\ ctlUnchanged

\* CatchCloseSettled letting a failure of the close replace the error.
CatchCloseSettledMasks ==
  /\ pc = "catch_close"
  /\ \E closed \in BOOLEAN :
       Install([abortController(Cur) EXCEPT
                  !.pc = "settled",
                  !.completion = "rejected",
                  !.error = IF closed THEN err ELSE <<"close">>])
  /\ ctlUnchanged

\* ---- the outer catch after its `await writer.close()` (index.js:196-202);
\* the close may have failed: the failure is swallowed.
CatchCloseSettled ==
  /\ pc = "catch_close"
  /\ Install([abortController(Cur) EXCEPT !.pc = "settled",
                                          !.completion = "rejected",
                                          !.error = err])
  /\ ctlUnchanged

\* ProgressTick reporting also while paused or aborted.
ProgressTickAlways ==
  /\ progressInterval
  /\ Install(updateProgress(Cur))
  /\ ctlUnchanged

\* ---- the progress interval callback (index.js:35-37)
ProgressTick ==
  /\ progressInterval
  /\ Install(IF ~isPaused /\ ~isAborted THEN updateProgress(Cur) ELSE Cur)
  /\ ctlUnchanged

\* ---- the control surface (index.js:207-223)
\* pause that flips the flag instead of setting it.
pauseToggles ==
  /\ calls < MaxCalls
  /\ calls' = calls + 1
  /\ isPaused' = ~isPaused
  /\ Install(onStatus(Cur, St("paused", "pause")))
  /\ UNCHANGED <<chunkSize, maxRetries, headers, token, isAborted, abortAt>>

pause ==
  /\ calls < MaxCalls
  /\ calls' = calls + 1
  /\ isPaused' = TRUE
  /\ Install(onStatus(Cur, St("paused", "pause")))
  /\ UNCHANGED <<chunkSize, maxRetries, headers, token, isAborted, abortAt>>

\* resume that also clears the abort flag.
resumeClearsAborted ==
  /\ isPaused \/ calls < MaxCalls
  /\ calls' = IF isPaused THEN calls ELSE calls + 1
  /\ isPaused' = FALSE
  /\ isAborted' = FALSE
  /\ Install(onStatus(Cur, St("downloading", "resume")))
  /\ UNCHANGED <<chunkSize, maxRetries, headers, token, abortAt>>

\* A resume() that ends a pause is always possible; one that finds the
\* transfer running counts against MaxCalls.
resume ==
  /\ isPaused \/ calls < MaxCalls
  /\ calls' = IF isPaused THEN calls ELSE calls + 1
  /\ isPaused' = FALSE
  /\ Install(onStatus(Cur, St("downloading", "resume")))
  /\ UNCHANGED <<chunkSize, maxRetries, headers, token, isAborted, abortAt>>

\* abort that leaves the progress interval running.
abortKeepsTimer ==
  /\ calls < MaxCalls
  /\ calls' = calls + 1
  /\ isAborted' = TRUE
  /\ abortAt' = IF abortAt.pc = "none" THEN [pc |-> pc, gate |-> gate] ELSE abortAt
  /\ Install(onStatus(abortController(Cur), St("aborted", "abort")))
  /\ UNCHANGED <<chunkSize, maxRetries, headers, token, isPaused>>

abort ==
  /\ calls < MaxCalls
  /\ calls' = calls + 1
  /\ isAborted' = TRUE
  /\ abortAt' = IF abortAt.pc = "none" THEN [pc |-> pc, gate |-> gate] ELSE abortAt
  /\ Install(onStatus(abortController(stopProgressUpdates(Cur)),
                      St("aborted", "abort")))
  /\ UNCHANGED <<chunkSize, maxRetries, headers, token, isPaused>>

Pipeline ==
  \/ HeadReject \/ HeadResponse
  \/ PickerReject \/ PickerOk
  \/ CreateWritableReject \/ CreateWritableOk
  \/ GatePoll
  \/ ChunkStart \/ AttemptStart
  \/ FetchReject \/ FetchResponse
  \/ StreamStep \/ ReadFragment \/ ReadDone \/ ReadReject
  \/ CommitStart \/ WriteOk \/ WriteReject
  \/ BackoffElapsed
  \/ FinalCloseOk \/ FinalCloseReject
  \/ CatchCloseSettled

Next == Pipeline \/ ProgressTick \/ pause \/ resume \/ abort

Spec == Init /\ [][Next]_vars

\* ---- the headers of the requests, for every caller configuration
HeaderNames == {"Authorization", "Cache-Control", "X-Custom"}

CallerHeaders ==
  UNION {[D -> {<<"">>, <<"caller">>}] : D \in SUBSET HeaderNames}

Tokens == {<<>>, <<"">>, <<"t">>}

InitHeaders ==
  /\ headers \in CallerHeaders /\ token \in Tokens
  /\ InitTransfer

\* The pipeline up to the dispatch of the first range request.
NextHeaders ==
  \/ HeadResponse
  \/ PickerOk
  \/ CreateWritableOk
  \/ ChunkStart
  \/ AttemptStart

SpecHeaders == InitHeaders /\ [][NextHeaders]_vars

\* ---- the retries of a transfer with maxRetries = MaxBackoffRetries that
\* the caller leaves alone
InitBackoff ==
  /\ headers = NoHeaders /\ token = <<>>
  /\ chunkSize \in 1..MaxChunkSize
  /\ maxRetries = MaxBackoffRetries
  /\ InitPipeline

NextBackoff ==
  \/ HeadResponse
  \/ PickerOk \/ CreateWritableOk
  \/ ChunkStart \/ AttemptStart
  \/ FetchReject \/ FetchResponse
  \/ StreamStep \/ ReadFragment \/ ReadDone \/ ReadReject
  \/ CommitStart \/ WriteOk \/ WriteReject
  \/ BackoffElapsed
  \/ FinalCloseOk
  \/ CatchCloseSettled

SpecBackoff == InitBackoff /\ [][NextBackoff]_vars

\* ================================================================ claims
HasStatus(text) == \E i \in 1..Len(statusLog) : statusLog[i].st = text

\* The pipeline has no step left: it has settled, or it awaits a promise
\* that nothing will settle.
PipelineHalted == ~ENABLED Pipeline

LoopSites == {"gate_chunk", "gate_attempt", "fetch", "gate_stream", "read",
              "gate_commit", "write", "backoff"}

ExhaustedErr(e) == Len(e) = 4 /\ e[1] = "Chunk failed after retries"

\* Range requests issued in the current iteration of the chunk loop.
AttemptsThisChunk ==
  Len(reqLog) - (IF commits = <<>> THEN 0 ELSE commits[Len(commits)].req)

\* C1: every range request starts at the committed size and ends at
\* min(start + chunkSize - 1, totalSize - 1); the ranges of the commits are
\* contiguous from 0, and a transfer that succeeds has committed up to
\* totalSize - 1.
C1_RangesTile ==
  /\ \A i \in 1..Len(reqLog) :
       reqLog[i][2] = Min(reqLog[i][1] + chunkSize - 1, totalSize - 1)
  /\ pc = "fetch" => reqLog[Len(reqLog)][1] = downloadedSize
  /\ \A i \in 1..Len(commits) :
       commits[i].start = IF i = 1 THEN 0 ELSE commits[i - 1].end + 1
  /\ completion = "resolved" =>
       /\ commits # <<>>
       /\ commits[Len(commits)].end = totalSize - 1

\* C2: an abort() that finds the pipeline waiting in the pause gate ends the
\* wait with the abort termination: when the pipeline comes to rest,
\* completion has rejected with the abort error and the sink was closed.
C2_AbortEndsPauseWait ==
  (abortAt.gate = "polling" /\ PipelineHalted) =>
     /\ completion = "rejected" /\ error = AbortedErr
     /\ closeCount >= 1

\* C3: getProgress() never decreases from one state to the next.
C3_ProgressMonotone == [][getProgress' >= getProgress]_vars

\* C4: the sink is acquired at most once and closed at most once.
C4_AcquireCloseOnce == acquireCount <= 1 /\ closeCount <= 1

\* C5: when completion has settled and the sink was acquired, close has been
\* invoked.
C5_ClosedBeforeSettle == (completion # "pending" /\ writer) => closeCount >= 1

C5_Witness ==
  /\ completion = "rejected" /\ writer /\ closeCount = 1
  /\ ExhaustedErr(error)

\* C6: after an abort() during the chunk loop, when the pipeline comes to
\* rest completion has rejected with the abort error, status aborted was
\* emitted and close was invoked exactly once.
C6_AbortMidDownload ==
  (abortAt.pc \in LoopSites /\ PipelineHalted) =>
     /\ completion = "rejected" /\ error = AbortedErr
     /\ HasStatus("aborted")
     /\ closeCount = 1

\* C7: after an abort() in a non-terminal state completion never resolves
\* and status done is never emitted.
C7_AbortNeverDone ==
  abortAt.pc \notin {"none", "settled"} =>
     /\ completion # "resolved"
     /\ \A i \in 1..Len(statusLog) : \A j \in 1..Len(statusLog) :
          (i < j /\ statusLog[i] = St("aborted", "abort"))
             => statusLog[j].st # "done"

\* C8: once set, the abort flag stays set, whatever call or step follows.
C8_AbortedForever == [][isAborted => isAborted']_vars

C8_Witness ==
  /\ isAborted
  /\ statusLog[Len(statusLog)] = St("downloading", "resume")

\* C9: with maxRetries = N >= 1 a chunk gets at most N range requests; after
\* N failed attempts the pipeline is in its failure path with an error that
\* carries the range of the chunk and N, exactly N requests were issued for
\* the chunk, all for its range, status error was emitted and no later chunk
\* was requested.
C9_Exhaustion ==
  maxRetries >= 1 =>
    /\ AttemptsThisChunk <= maxRetries
    /\ (~success /\ retries >= maxRetries) =>
          /\ pc \in {"catch_close", "settled"}
          /\ ExhaustedErr(IF pc = "settled" THEN error ELSE err)
    /\ \A e \in {err, error} :
         ExhaustedErr(e) =>
           /\ e = <<"Chunk failed after retries", start, end, maxRetries>>
           /\ AttemptsThisChunk = maxRetries
           /\ \A i \in 1..Len(reqLog) :
                /\ reqLog[i][1] <= start
                /\ i > Len(reqLog) - maxRetries => reqLog[i] = <<start, end>>
           /\ HasStatus("error")
           /\ pc = "settled" => (completion = "rejected" /\ error = e)

C9_Witness ==
  /\ completion = "rejected" /\ ExhaustedErr(error)
  /\ maxRetries = 2 /\ start > 0 /\ commits # <<>>
  /\ commits[1].retries = 1

\* C10: the retrying statuses are exactly, for every chunk in order, the
\* attempts 1..k of its k failed attempts with the range of that chunk; a
\* commit belongs to one request for its range, no request is committed
\* twice, and a transfer that resolves has emitted done last.
IsRetrying(x) == x.st = "retrying"

IsLoopStatus(x) == x.by = "loop"

AttemptStatuses(a, b, k) == [i \in 1..k |-> RetryingSt(a, b, i)]

RECURSIVE ExpectedRetrying(_)
ExpectedRetrying(n) ==
  IF n = 0 THEN <<>>
  ELSE ExpectedRetrying(n - 1) \o
       AttemptStatuses(commits[n].start, commits[n].end, commits[n].retries)

C10_RetryThenCommit ==
  /\ SelectSeq(statusLog, IsRetrying) =
       ExpectedRetrying(Len(commits)) \o
       (IF success THEN <<>> ELSE AttemptStatuses(start, end, retries))
  /\ \A i \in 1..Len(commits) :
       /\ reqLog[commits[i].req] = <<commits[i].start, commits[i].end>>
       /\ i > 1 => commits[i - 1].req < commits[i].req
  /\ completion = "resolved" =>
       LET loop == SelectSeq(statusLog, IsLoopStatus)
       IN loop[Len(loop)] = St("done", "loop")

C10_Witness ==
  /\ completion = "resolved"
  /\ \E i \in 1..Len(commits) : commits[i].retries = 1
  /\ HasStatus("done")

\* Every commit carried exactly the bytes of the range asked for.
ExactBodies ==
  \A i \in 1..Len(commits) : commits[i].len = commits[i].end - commits[i].start + 1

\* C11: once totalSize is known, 0 <= downloadedSize <= totalSize.
C11_CommittedWithinTotal ==
  totalSize > 0 => (0 <= downloadedSize /\ downloadedSize <= totalSize)

\* C12: downloadedSize changes only in the step in which a write resolves;
\* it grows by the length of the chunk written and currentChunkProgress is 0
\* after the same step.
C12_CommitStep ==
  [][downloadedSize' # downloadedSize =>
       /\ pc = "write"
       /\ commits' = Append(commits, commits'[Len(commits')])
       /\ commits'[Len(commits')].len = receivedLength
       /\ downloadedSize' = downloadedSize + receivedLength
       /\ currentChunkProgress' = 0]_vars

C12_Witness ==
  /\ downloadedSize = 2 /\ Len(commits) = 2
  /\ HasStatus("retrying")
  /\ currentChunkProgress = 0

\* C13: getProgress() and every value passed to onProgress lie in 0..100,
\* getProgress() is 0 while totalSize is unknown and otherwise the floor of
\* the percentage of committed plus in-flight bytes, clamped to 100.
C13_ProgressRange ==
  /\ getProgress \in 0..100
  /\ lastProgress \in -1..100
  /\ totalSize = 0 => getProgress = 0
  /\ totalSize > 0 =>
       getProgress = Min(100, ((downloadedSize + currentChunkProgress) * 100) \div totalSize)

\* C14: the request in flight is the last one issued and is not committed
\* yet; a request for another range follows only a commit of the request
\* before it; the start offsets never go back and the start of the request
\* after a commit is beyond the start of the chunk committed.
C14_OneAtATimeAscending ==
  /\ pc \in {"fetch", "read"} =>
       /\ currentController = Len(reqLog)
       /\ \A c \in 1..Len(commits) : commits[c].req < Len(reqLog)
  /\ \A i \in 1..(Len(reqLog) - 1) :
       LET committed == \E c \in 1..Len(commits) : commits[c].req = i
       IN /\ reqLog[i + 1][1] >= reqLog[i][1]
          /\ reqLog[i + 1] # reqLog[i] => committed
          /\ committed => reqLog[i + 1][1] > reqLog[i][1]

\* C15 as claimed, for the bytes received and written: from a state with
\* paused set to the next with paused still set, no fragment is added to
\* currentChunkProgress and no chunk is committed; with aborted set no range
\* request is dispatched.
C15_PausedNoProgress ==
  [][/\ (isPaused /\ isPaused') =>
          /\ currentChunkProgress' <= currentChunkProgress
          /\ commits' = commits
     /\ isAborted => reqLog' = reqLog]_vars

\* C15 as amended: a pause gate resolves only when paused is false at its
\* check; a range request, a read and a write are started only by the
\* continuation of a gate that resolved, never with aborted set; while a gate
\* polls with paused set the pipeline does not move; with aborted set no
\* range request is dispatched.
C15_PauseAtGates ==
  [][/\ (gate' = "resolved" /\ gate # "resolved") => ~isPaused
     /\ (\/ Len(reqLog') > Len(reqLog)
         \/ (pc' = "read" /\ pc # "read")
         \/ (pc' = "write" /\ pc # "write"))
          => (pc \in GateSites /\ gate = "resolved" /\ ~isAborted)
     /\ (pc \in GateSites /\ gate = "polling" /\ isPaused /\ isPaused')
          => UNCHANGED <<pc, reqLog, currentChunkProgress, commits, downloadedSize>>
     /\ isAborted => reqLog' = reqLog]_vars

C15_Witness ==
  /\ isPaused /\ ~isAborted
  /\ pc = "gate_stream" /\ gate = "polling"
  /\ receivedLength >= 1

\* A transfer so far without failure, pause or abort: no control call and
\* no retrying or error status.
Undisturbed ==
  /\ \A i \in 1..Len(statusLog) :
       statusLog[i].by = "loop" /\ statusLog[i].st \notin {"retrying", "error"}
  /\ ~isPaused /\ ~isAborted

Ceil(a, b) == (a + b - 1) \div b

\* C16: on an undisturbed transfer the statuses are preparing, downloading
\* once per commit, then finalizing once the chunk loop has ended, then
\* done once completion has resolved; close is invoked with finalizing and
\* before done, and at done the last progress value is 100 and
\* downloadedSize = totalSize.
C16_HappyPathStatuses ==
  Undisturbed =>
    /\ statusLog =
         <<St("preparing", "loop")>>
         \o [i \in 1..Len(commits) |-> St("downloading", "loop")]
         \o (IF pc \in {"final_close", "settled"} /\ totalSize > 0
             THEN <<St("finalizing", "loop")>> ELSE <<>>)
         \o (IF completion = "resolved" THEN <<St("done", "loop")>> ELSE <<>>)
    /\ closeCount = (IF HasStatus("finalizing") THEN 1 ELSE 0)
    /\ completion = "resolved" =>
         /\ lastProgress = 100
         /\ downloadedSize = totalSize
         /\ closeCount = 1

\* C17: with bodies of exactly the length asked for, a transfer that
\* succeeds has fetched ceil(totalSize / chunkSize) chunks: every chunk but
\* the last carries chunkSize bytes, the last one ends at totalSize - 1, and
\* no transfer commits more chunks than that.
C17_ChunkCount ==
  ExactBodies =>
    /\ Len(commits) <= Ceil(totalSize, chunkSize)
    /\ \A i \in 1..Len(commits) :
         /\ commits[i].start = (i - 1) * chunkSize
         /\ commits[i].end = Min(i * chunkSize, totalSize) - 1
    /\ completion = "resolved" => Len(commits) = Ceil(totalSize, chunkSize)

C17_Witness ==
  /\ ExactBodies /\ completion = "resolved"
  /\ totalSize = 3 /\ chunkSize = 2
  /\ Len(commits) = 2 /\ commits[2].len = 1

\* C18: once the HEAD exchange is over with no usable size (response not
\* ok, or a Content-Length that is missing, unparsable or zero), completion
\* has rejected with the HEAD or size error, no file handle was asked for,
\* no range request was issued and no writer was closed; the size is
\* positive in every state where the transfer went on.
C18_NoSizeRejects ==
  /\ (pc # "head" /\ totalSize = 0) =>
       /\ completion = "rejected"
       /\ error \in {<<"network">>, <<"Failed to get file info">>,
                     <<"Could not determine file size">>}
       /\ acquireCount = 0 /\ reqLog = <<>> /\ closeCount = 0
       /\ ~HasStatus("done")
  /\ (acquireCount > 0 \/ reqLog # <<>>) => totalSize > 0

C18_Witness ==
  /\ completion = "rejected"
  /\ error = <<"Could not determine file size">>
  /\ totalSize = 0 /\ acquireCount = 0 /\ reqLog = <<>>

\* C19: a completion that has rejected with an error other than the abort
\* error has status error emitted, also when abort() was called before; a
\* completion that has rejected with the abort error has status aborted
\* emitted and never status error.
C19_ErrorStatusIffNotAbort ==
  completion = "rejected" =>
    /\ error # AbortedErr => HasStatus("error")
    /\ error = AbortedErr => (HasStatus("aborted") /\ ~HasStatus("error"))

\* C20: once completion has settled, no step changes isPaused, isAborted or
\* the progress value, and none emits a status or a progress value.
C20_SettledControlsNoOp ==
  [][completion # "pending" =>
       /\ isPaused' = isPaused /\ isAborted' = isAborted
       /\ getProgress' = getProgress
       /\ statusLog' = statusLog /\ lastProgress' = lastProgress]_vars

\* C21: a pause() or resume() call appends its status (paused, respectively
\* downloading) and leaves isPaused true, respectively false, whatever it
\* was before; it changes nothing else of the transfer, so a call that
\* finds the flag already at its value changes only the status log.
C21_PauseResumeIdempotent ==
  [][LET n == Len(statusLog')
         last == statusLog'[n]
     IN (n = Len(statusLog) + 1 /\ last.by \in {"pause", "resume"}) =>
          /\ last = (IF last.by = "pause" THEN St("paused", "pause")
                     ELSE St("downloading", "resume"))
          /\ statusLog' = Append(statusLog, last)
          /\ isPaused' = (last.by = "pause")
          /\ UNCHANGED <<isAborted, totalSize, downloadedSize,
                         currentChunkProgress, lastProgress, pc, gate,
                         reqLog, commits, completion, progressInterval>>]_vars

C21_Witness ==
  /\ Len(statusLog) >= 4
  /\ statusLog[Len(statusLog) - 2].by = "pause"
  /\ statusLog[Len(statusLog) - 1].by = "pause"
  /\ statusLog[Len(statusLog)].by = "resume"
  /\ ~isPaused /\ pc \in LoopSites

\* C22: within the abort() call the abort flag is set, the controller of the
\* range request in flight (if any) is aborted, the progress interval is
\* cleared and status aborted is emitted; an abort() that finds the flag set
\* changes nothing but the status log.
C22_AbortSynchronous ==
  [][LET n == Len(statusLog')
         last == statusLog'[n]
     IN (n = Len(statusLog) + 1 /\ last.by = "abort") =>
          /\ last = St("aborted", "abort")
          /\ statusLog' = Append(statusLog, last)
          /\ isAborted'
          /\ ~progressInterval'
          /\ currentController # 0 => currentController \in abortedTokens'
          /\ abortedTokens' \subseteq abortedTokens \cup {currentController}
          /\ UNCHANGED <<isPaused, totalSize, downloadedSize,
                         currentChunkProgress, lastProgress, pc, gate,
                         reqLog, commits, completion, currentController>>
          /\ isAborted => UNCHANGED <<isAborted, progressInterval, abortedTokens>>]_vars

C22_Witness ==
  /\ Len(statusLog) >= 3
  /\ statusLog[Len(statusLog) - 1] = St("aborted", "abort")
  /\ statusLog[Len(statusLog)] = St("aborted", "abort")
  /\ pc \in {"fetch", "read"}
  /\ currentController # 0 /\ currentController \in abortedTokens
  /\ isAborted /\ ~progressInterval

\* C23: after abort() the pipeline does not stay in the backoff wait until
\* its timer fires: the step that takes an aborted pipeline out of the wait
\* is not the expiry of the backoff delay.
C23_AbortCancelsBackoff ==
  [][(isAborted /\ pc = "backoff" /\ pc' # "backoff") => ~BackoffElapsed]_vars

\* C24: with the abort flag set no step counts an attempt, emits a retrying
\* status or issues a range request; the step that ends the request, read
\* or write in flight, whether it failed or not, goes to the abort exit:
\* status aborted, then the outer catch with the abort error.
C24_AbortNotRetried ==
  [][isAborted =>
       /\ retries' = retries
       /\ reqLog' = reqLog
       /\ SelectSeq(statusLog', IsRetrying) = SelectSeq(statusLog, IsRetrying)
       /\ (pc \in {"fetch", "read", "write"} /\ pc' # pc) =>
            \/ /\ pc' = "catch_close" /\ err' = AbortedErr
               /\ statusLog'[Len(statusLog')] = St("aborted", "loop")
            \/ /\ pc = "fetch" /\ pc' = "gate_stream" /\ gate' = "rejected"]_vars

C24_Witness ==
  /\ abortAt.pc = "read" /\ pc = "catch_close" /\ err = AbortedErr
  /\ receivedLength >= 1 /\ retries = 1
  /\ commits = <<>> /\ Len(reqLog) = 2

\* C25: the progress interval is set only while the writer is held and
\* completion is pending; a step that reports a progress value without
\* moving the pipeline (a tick of the interval) happens only with the
\* interval set and the transfer neither paused nor aborted, reports the
\* current percentage and changes nothing else.
C25_TimerScoped ==
  /\ [](progressInterval => (writer /\ completion = "pending" /\ totalSize > 0))
  /\ [][(lastProgress' # lastProgress /\ pc' = pc /\ gate' = gate) =>
          /\ progressInterval /\ ~isPaused /\ ~isAborted
          /\ lastProgress' = getProgress
          /\ UNCHANGED <<totalSize, downloadedSize, currentChunkProgress,
                         isPaused, isAborted, writer, progressInterval,
                         statusLog, reqLog, commits, completion,
                         currentController, retries>>]_vars

C25_Witness ==
  /\ progressInterval /\ isPaused
  /\ pc = "gate_stream" /\ gate = "polling"
  /\ lastProgress > getProgress

\* C26: while completion is pending and the transfer is neither paused nor
\* aborted, the pipeline has a step that changes the state: it is never
\* left with steps that only repeat the state it is in.
C26_PendingMakesProgress ==
  (completion = "pending" /\ ~isPaused /\ ~isAborted /\ Len(reqLog) < MaxRequests)
     => ENABLED <<Pipeline>>_vars

\* C27: the headers of the last request issued hold every header the caller
\* gave, with the caller's value; with a token and no Authorization header
\* from the caller they hold Authorization: Bearer <token>; with neither
\* token nor caller headers the HEAD request has no headers; a range
\* request carries its Range.
C27_HeadersCarried ==
  /\ \A k \in DOMAIN headers : k \in DOMAIN built /\ built[k] = headers[k]
  /\ (TokenSet /\ "Authorization" \notin DOMAIN headers) =>
       /\ "Authorization" \in DOMAIN built
       /\ built["Authorization"] = <<"Bearer", token[1]>>
  /\ (~TokenSet /\ DOMAIN headers = {} /\ reqLog = <<>>) => DOMAIN built = {}
  /\ reqLog # <<>> =>
       /\ "Range" \in DOMAIN built
       /\ built["Range"] = <<"bytes", reqLog[Len(reqLog)][1], reqLog[Len(reqLog)][2]>>

\* C28: when completion has rejected with the failure of the file picker or
\* of createWritable, status error was emitted, no range request was issued
\* and close was never invoked.
C28_SinkAcquisitionFails ==
  (completion = "rejected" /\ error \in {<<"picker">>, <<"createWritable">>}) =>
     /\ HasStatus("error")
     /\ reqLog = <<>>
     /\ closeCount = 0 /\ ~writer

\* C29: currentChunkProgress is 0 in the state in which a range request has
\* just been issued (first attempt or retry), and 0 once the chunk is
\* committed.
C29_InFlightZeroAtDispatch ==
  /\ pc = "fetch" => currentChunkProgress = 0
  /\ success => currentChunkProgress = 0

RECURSIVE CommittedBytes(_)
CommittedBytes(n) == IF n = 0 THEN 0 ELSE CommittedBytes(n - 1) + commits[n].len

\* C30: in every state downloadedSize is the sum of the bytes committed and
\* currentChunkProgress lies between 0 and the bytes received for the chunk
\* in progress; while the write is pending currentChunkProgress is the
\* whole chunk; the commit moves the bytes from currentChunkProgress to
\* downloadedSize in one step, leaving their sum as it was; every progress
\* value reported is the percentage of that sum.
C30_CommitInstant ==
  /\ [](/\ downloadedSize = CommittedBytes(Len(commits))
        /\ 0 <= currentChunkProgress /\ currentChunkProgress <= receivedLength
        /\ pc = "write" => currentChunkProgress = receivedLength)
  /\ [][commits' # commits =>
          downloadedSize' + currentChunkProgress'
             = downloadedSize + currentChunkProgress]_vars
  /\ [][lastProgress' # lastProgress => lastProgress' = getProgress']_vars

C30_Witness ==
  /\ pc = "write" /\ progressInterval /\ ~isPaused /\ ~isAborted
  /\ receivedLength >= 1 /\ currentChunkProgress = receivedLength
  /\ Len(commits) >= 1
  /\ lastProgress = getProgress

\* C31: the step that ends the close of the outer catch rejects completion
\* with the error the catch block holds; completion has rejected with the
\* close error only when the close that failed was the finalizing one.
C31_CloseFailureSwallowed ==
  /\ [](pc = "catch_close" => err # <<>>)
  /\ [][(pc = "catch_close" /\ pc' # pc) =>
          (pc' = "settled" /\ completion' = "rejected" /\ error' = err)]_vars
  /\ []((completion = "rejected" /\ error = <<"close">>) => HasStatus("finalizing"))

C31_Witness ==
  /\ completion = "rejected" /\ error = AbortedErr
  /\ writer /\ closeCount = 1 /\ Len(commits) = 1

C33_OneFreshToken ==
  /\ [](/\ currentController \in {0, Len(reqLog)}
        /\ abortedTokens \subseteq 1..Len(reqLog)
        /\ pc \in {"fetch", "gate_stream", "read", "gate_commit", "write"}
             => currentController = Len(reqLog)
        /\ pc \in {"gate_chunk", "gate_attempt", "backoff"} => currentController = 0
        /\ completion # "pending" =>
             (currentController = 0 \/ currentController \in abortedTokens))
  /\ [][Len(reqLog') > Len(reqLog) =>
          /\ currentController' = Len(reqLog) + 1
          /\ currentController' \notin abortedTokens
          /\ currentController' \notin abortedTokens'
          /\ currentController = 0]_vars

C33_Witness ==
  /\ completion = "rejected" /\ error = AbortedErr
  /\ currentController = 2 /\ abortedTokens = {2}
  /\ Len(reqLog) = 2

\* C34: every chunk committed carried exactly end - start + 1 bytes.
C34_CommitOnlyExactBody ==
  \A i \in 1..Len(commits) :
    commits[i].len = commits[i].end - commits[i].start + 1

\* C35: once the abort flag is set downloadedSize does not change.
C35_NoCommitAfterAbort == [][isAborted => downloadedSize' = downloadedSize]_vars

\* C36: once the abort flag is set every status the pipeline emits is
\* aborted.
C36_OnlyAbortedAfterAbort ==
  [][isAborted =>
       \A i \in (Len(statusLog) + 1)..Len(statusLog') :
          statusLog'[i].by = "loop" => statusLog'[i].st = "aborted"]_vars

\* C37: after an abort() during the HEAD request the file picker is never
\* invoked and no writable is opened.
C37_NoAcquireAfterAbort ==
  abortAt.pc = "head" => (acquireCount = 0 /\ ~writer)

\* C38: a step that emits status downloading ends with the pause flag
\* clear; a commit made with the pause flag set emits status paused, one
\* made with the flag clear emits downloading.
C38_DownloadingOnlyUnpaused ==
  [][/\ \A i \in (Len(statusLog) + 1)..Len(statusLog') :
          statusLog'[i].st = "downloading" => ~isPaused'
     /\ commits' # commits =>
          /\ Len(statusLog') > Len(statusLog)
          /\ statusLog'[Len(statusLog) + 1] =
               St(IF isPaused THEN "paused" ELSE "downloading", "loop")]_vars

C38_Witness ==
  /\ isPaused /\ Len(commits) = 1
  /\ statusLog[Len(statusLog)] = St("paused", "loop")
  /\ pc = "gate_chunk" /\ gate = "polling"

\* C39: a write is pending only with the writer held and close not yet
\* invoked; once close has been invoked no write is started and nothing is
\* committed; nothing is committed without the writer.
C39_WritesWhileOpen ==
  /\ [](pc = "write" => (writer /\ closeCount = 0))
  /\ []((closeCount > 0 \/ ~writer) => pc # "write")
  /\ [][commits' # commits => (writer /\ closeCount = 0 /\ pc = "write")]_vars
  /\ [][closeCount > 0 => (commits' = commits /\ pc' # "write")]_vars

C39_Witness ==
  /\ pc = "write" /\ writer /\ closeCount = 0
  /\ retries = 1 /\ commits = <<>>

\* C40: a retrying status carries an attempt number below maxRetries: it is
\* emitted only when another request for the range is to follow.
C40_RetryingMeansRetry ==
  \A i \in 1..Len(statusLog) :
    IsRetrying(statusLog[i]) => statusLog[i].n < maxRetries

====
